---- MODULE Spec2Model ----
(***************************************************************************)
(* CosmoFlow: the rejection sampler of tracers.py, the survey mixer of     *)
(* survey.py and the distance model of cosmology.py, as state machines.    *)
(*                                                                         *)
(* Units.  Redshifts are integers (z = 0, 1, 2, ...).  Densities n(z) and  *)
(* heights are in millionths, a positive density rounded up so that it     *)
(* stays positive: 1.0 is 1000000.  Distances are in Mpc, rounded down.    *)
(***************************************************************************)
EXTENDS Integers, Sequences, FiniteSets

VARIABLES
  \* ---- Tracer.sample_redshifts: one activation ----
  s_pc,           \* "idle" | "loop" | "drawn" | "returned" | "raised"
  s_self,         \* the tracer instance the method runs on ("none" when idle)
  s_n,            \* the argument n
  samples,        \* the local list samples
  z_proposal,     \* the local array z_proposal of the current batch
  prob_proposal,  \* the local array prob_proposal of the current batch
  s_result,       \* the returned array
  s_exc,          \* the exception that ended the call, or "none"
  accepted_log,   \* history: every accepted proposal, in order of acceptance
  rng_z,          \* the redshifts the uniform generator yields in this run
  \* ---- survey.generate_redshifts: one activation ----
  g_pc,           \* "idle" | "test" | "call" | "returned" | "raised"
  g_idx,          \* which of the four if-statements (lines 23..30) is next
  g_n,            \* the argument n
  edge_1, edge_2, edge_3,
  n_lrg, n_elg, n_qso, n_bgs,
  redshifts,      \* the local list redshifts
  g_result,       \* the returned array
  invoked,        \* history: the <<tracer, count>> of each sample_redshifts call
  origin,         \* history: the tracer each element of redshifts came from
  \* ---- cosmology.Cosmology: one instance ----
  c_pc,           \* "new" | "constructed" | "init_raised"
  c_attrs,        \* the instance attributes that are set
  c_lookup,       \* comoving_distance_lookup: the tabulated knots
  c_out           \* the outcome of the last query

s_vars == <<s_pc, s_self, s_n, samples, z_proposal, prob_proposal, s_result,
            s_exc, accepted_log, rng_z>>
g_vars == <<g_pc, g_idx, g_n, edge_1, edge_2, edge_3, n_lrg, n_elg, n_qso,
            n_bgs, redshifts, g_result, invoked, origin>>
c_vars == <<c_pc, c_attrs, c_lookup, c_out>>
vars == <<s_vars, g_vars, c_vars>>

\* ------------------------------------------------------------- bounds
\* Largest count a client passes to sample_redshifts.
MaxCount == 2
\* Largest count passed to sample_redshifts in the runs checked for liveness.
MaxCountLive == 1
\* Largest n a client passes to generate_redshifts.
MaxN == 1

\* ------------------------------------------------------ tracers.py
Tracers == {"LRG", "ELG", "QSO", "BGS"}

\* sample_redshifts, line 34: z_min, z_max = 0.0, 5.0
z_min == 0
z_max == 5

\* The attributes each __init__ sets (LRG 102-105, ELG 127-130, QSO 152,
\* BGS 174-177).
InstanceAttrs(t) ==
  CASE t = "LRG" -> {"z_min", "z_max", "sigma", "norm"}
    [] t = "ELG" -> {"alpha", "beta", "z0", "max_prob_estimate"}
    [] t = "QSO" -> {"z_star"}
    [] t = "BGS" -> {"alpha", "beta", "z0", "max_prob_estimate"}

\* self.max_prob_estimate = 1.0 (ELG line 130, BGS line 177), in millionths.
max_prob_estimate(t) ==
  CASE t = "ELG" -> 1000000
    [] t = "BGS" -> 1000000

\* n_of_z of each subclass at the integer redshifts 0..5, in millionths.
\*   LRG  0.5*(erf((z-0.4)/sqrt(2)*0.1) - erf((z-1.0)/sqrt(2)*0.1))
\*   ELG  z^2 * exp(-(z/0.8)^1.5)
\*   QSO  z^2 * exp(-z/2)
\*   BGS  z^2 * exp(-(z/0.2)^1.5)
n_of_z(t, z) ==
  CASE t = "LRG" -> <<23875, 23923, 23732, 23309, 22666, 21821>>[z + 1]
    [] t = "ELG" -> <<0, 247204, 76800, 6317, 224, 5>>[z + 1]
    [] t = "QSO" -> <<0, 606531, 1471518, 2008172, 2165365, 2052125>>[z + 1]
    [] t = "BGS" -> <<0, 14, 1, 1, 1, 1>>[z + 1]

\* The redshifts np.random.uniform(z_min, z_max, ...) can yield (line 40): the
\* points of the sampling range [z_min, z_max] a run draws from.  A run draws
\* from two of the grid points; ZSlices lists the pairs explored.
ZSlices == {{0, 1}, {1, 2}, {2, 5}}

\* The heights np.random.uniform(0, max_prob_estimate, ...) can yield (line 41):
\* the grid points of the half-open interval [0, bound).
HeightGrid == {0, 76800, 1000000}
Heights(bound) == {h \in HeightGrid : 0 <= h /\ h < bound}

\* Mutant of LoopCond: the loop gives up one sample early.
LoopCondShort(smp, n) == Len(smp) < n - 1

\* line 37: the loop condition len(samples) < n
LoopCond(smp, n) == Len(smp) < n

\* line 39: batch_size = (n - len(samples)) * 3
batch_size(n, smp) == (n - Len(smp)) * 3

\* Mutant of accepted: <= in place of <.
acceptedOrEqual(t, zs, ps) == [i \in 1..Len(zs) |-> ps[i] <= n_of_z(t, zs[i])]

\* line 44: accepted = prob_proposal < self.n_of_z(z_proposal), elementwise
accepted(t, zs, ps) == [i \in 1..Len(zs) |-> ps[i] < n_of_z(t, zs[i])]

\* line 47: z_proposal[accepted], boolean-mask indexing: the elements whose
\* mask is True, in index order
RECURSIVE MaskSelect(_, _, _)
MaskSelect(zs, mask, i) ==
  IF i > Len(zs) THEN <<>>
  ELSE (IF mask[i] THEN <<zs[i]>> ELSE <<>>) \o MaskSelect(zs, mask, i + 1)

\* line 47: samples.extend(z_proposal[accepted])
Extend(smp, zs, mask) == smp \o MaskSelect(zs, mask, 1)

\* Mutant of SlicePrefix: the list is returned untruncated.
SliceNone(smp, n) == smp

\* Mutant of SlicePrefix: samples[-n:], the last n in place of the first n.
SliceSuffix(smp, n) ==
  IF n >= Len(smp) THEN smp ELSE SubSeq(smp, Len(smp) - n + 1, Len(smp))

\* line 49: samples[:n], Python's slice of a list
SlicePrefix(smp, n) ==
  IF n >= 0 THEN SubSeq(smp, 1, IF n < Len(smp) THEN n ELSE Len(smp))
  ELSE SubSeq(smp, 1, IF Len(smp) + n > 0 THEN Len(smp) + n ELSE 0)

\* lines 33-35: entry of sample_redshifts on tracer t with argument n.  Reading
\* self.max_prob_estimate raises AttributeError on an instance without it.
Enter(t, n) ==
  /\ s_self' = t
  /\ s_n' = n
  /\ samples' = <<>>
  /\ z_proposal' = <<>>
  /\ prob_proposal' = <<>>
  /\ s_result' = <<>>
  /\ accepted_log' = <<>>
  /\ IF "max_prob_estimate" \in InstanceAttrs(t)
       THEN s_pc' = "loop" /\ s_exc' = "none"
       ELSE s_pc' = "raised" /\ s_exc' = "AttributeError"
  /\ UNCHANGED rng_z

\* A client constructs a tracer and calls sample_redshifts(n) on it, n <= most.
CallWithin(most) ==
  /\ s_pc = "idle" /\ g_pc = "idle" /\ c_pc = "new"
  /\ \E t \in Tracers, n \in 0..most : Enter(t, n)
  /\ UNCHANGED <<g_vars, c_vars>>

Call_sample_redshifts == CallWithin(MaxCount)

\* lines 37-41: the loop condition holds; a batch of proposals and heights is
\* drawn.
LoopDraw ==
  /\ s_pc = "loop"
  /\ LoopCond(samples, s_n)
  /\ z_proposal' \in [1..batch_size(s_n, samples) -> rng_z]
  /\ prob_proposal' \in
       [1..batch_size(s_n, samples) -> Heights(max_prob_estimate(s_self))]
  /\ s_pc' = "drawn"
  /\ UNCHANGED <<s_self, s_n, samples, s_result, s_exc, accepted_log, rng_z,
                 g_vars, c_vars>>

\* History: the proposals of a batch that lie strictly under the density curve.
RECURSIVE UnderCurve(_, _, _)
UnderCurve(t, zs, ps) ==
  IF zs = <<>> THEN <<>>
  ELSE (IF n_of_z(t, Head(zs)) > Head(ps) THEN <<Head(zs)>> ELSE <<>>)
         \o UnderCurve(t, Tail(zs), Tail(ps))

\* lines 44-47: the acceptance mask is computed and the accepted proposals are
\* appended; the batch arrays are dead until the next draw overwrites them.
LoopExtend ==
  /\ s_pc = "drawn"
  /\ samples' = Extend(samples, z_proposal,
                       accepted(s_self, z_proposal, prob_proposal))
  /\ accepted_log' = accepted_log \o UnderCurve(s_self, z_proposal, prob_proposal)
  /\ z_proposal' = <<>>
  /\ prob_proposal' = <<>>
  /\ s_pc' = "loop"
  /\ UNCHANGED <<s_self, s_n, s_result, s_exc, rng_z, g_vars, c_vars>>

\* lines 37, 49: the loop condition fails; the truncated list is returned.
SampleReturn ==
  /\ s_pc = "loop"
  /\ ~LoopCond(samples, s_n)
  /\ s_result' = SlicePrefix(samples, s_n)
  /\ s_pc' = "returned"
  /\ UNCHANGED <<s_self, s_n, samples, z_proposal, prob_proposal, s_exc,
                 accepted_log, rng_z, g_vars, c_vars>>

\* ------------------------------------------------------- survey.py
\* lines 18-21 and 23-30: the tracers in the order they are sampled
Order == <<"LRG", "ELG", "QSO", "BGS">>

\* the sub-count the k-th if-statement tests and passes
SubCount(k) == <<n_lrg, n_elg, n_qso, n_bgs>>[k]

\* Mutant of sub_elg: the subtraction of the previous edge is forgotten.
sub_elg_edge(n, e1, e2, e3) == e2

\* lines 14-17
sub_lrg(n, e1, e2, e3) == e1
sub_elg(n, e1, e2, e3) == e2 - e1
sub_qso(n, e1, e2, e3) == e3 - e2
sub_bgs(n, e1, e2, e3) == n - e3

\* lines 11-22: the edges are drawn from 0..n (np.random.randint(0, n + 1)), the
\* sub-counts computed, the tracers constructed, redshifts = [].
generate_redshifts ==
  /\ g_pc = "idle" /\ s_pc = "idle" /\ c_pc = "new"
  /\ \E n \in 0..MaxN :
       \E e1 \in 0..n, e2 \in 0..n, e3 \in 0..n :
         /\ g_n' = n
         /\ edge_1' = e1 /\ edge_2' = e2 /\ edge_3' = e3
         /\ n_lrg' = sub_lrg(n, e1, e2, e3)
         /\ n_elg' = sub_elg(n, e1, e2, e3)
         /\ n_qso' = sub_qso(n, e1, e2, e3)
         /\ n_bgs' = sub_bgs(n, e1, e2, e3)
  /\ redshifts' = <<>>
  /\ g_idx' = 1
  /\ g_pc' = "test"
  /\ UNCHANGED <<g_result, invoked, origin, s_vars, c_vars>>

\* lines 23-30: the guard of the k-th if-statement
Guard(count) == count > 0

\* lines 24, 26, 28, 30: the guard holds and sample_redshifts is called with the
\* sub-count.
CallTracer ==
  /\ g_pc = "test" /\ g_idx <= 4
  /\ Guard(SubCount(g_idx))
  /\ Enter(Order[g_idx], SubCount(g_idx))
  /\ invoked' = Append(invoked, <<Order[g_idx], SubCount(g_idx)>>)
  /\ g_pc' = "call"
  /\ UNCHANGED <<g_idx, g_n, edge_1, edge_2, edge_3, n_lrg, n_elg, n_qso, n_bgs,
                 redshifts, g_result, origin, c_vars>>

\* lines 23, 25, 27, 29: the guard fails and the tracer is skipped.
SkipTracer ==
  /\ g_pc = "test" /\ g_idx <= 4
  /\ ~Guard(SubCount(g_idx))
  /\ g_idx' = g_idx + 1
  /\ UNCHANGED <<g_pc, g_n, edge_1, edge_2, edge_3, n_lrg, n_elg, n_qso, n_bgs,
                 redshifts, g_result, invoked, origin, s_vars, c_vars>>

\* lines 24, 26, 28, 30: redshifts.extend(<the returned array>)
ExtendList(lst, arr) == lst \o arr

\* lines 24, 26, 28, 30: the call has returned and its result is appended.
ExtendRedshifts ==
  /\ g_pc = "call" /\ s_pc = "returned"
  /\ redshifts' = ExtendList(redshifts, s_result)
  /\ origin' = origin \o [i \in 1..Len(s_result) |-> s_self]
  /\ g_idx' = g_idx + 1
  /\ g_pc' = "test"
  /\ s_pc' = "idle"
  /\ s_self' = "none" /\ s_n' = 0 /\ samples' = <<>> /\ s_result' = <<>>
  /\ accepted_log' = <<>>
  /\ UNCHANGED <<z_proposal, prob_proposal, s_exc, rng_z, g_n, edge_1, edge_2,
                 edge_3, n_lrg, n_elg, n_qso, n_bgs, g_result, invoked, c_vars>>

\* lines 24, 26, 28, 30: the call raised; nothing catches it and
\* generate_redshifts ends with the exception.
Propagate ==
  /\ g_pc = "call" /\ s_pc = "raised"
  /\ g_pc' = "raised"
  /\ UNCHANGED <<g_idx, g_n, edge_1, edge_2, edge_3, n_lrg, n_elg, n_qso, n_bgs,
                 redshifts, g_result, invoked, origin, s_vars, c_vars>>

\* line 31: return np.array(redshifts)
GenerateReturn ==
  /\ g_pc = "test" /\ g_idx = 5
  /\ g_result' = redshifts
  /\ g_pc' = "returned"
  /\ UNCHANGED <<g_idx, g_n, edge_1, edge_2, edge_3, n_lrg, n_elg, n_qso, n_bgs,
                 redshifts, invoked, origin, s_vars, c_vars>>

\* ---------------------------------------------------- cosmology.py
\* Redshifts of the distance model are in halves: zh stands for z = zh / 2.

\* The methods class Cosmology defines (lines 6, 17, 26, 37, 46, 55).
CosmologyMethods ==
  {"__init__", "E", "_builds_lookups", "comoving_distance",
   "luminosity_distance", "distance_modulus"}

\* line 15: the method name __init__ calls on self
InitCallee == "_build_lookups"

\* lines 10-14: the attributes __init__ assigns before the call of line 15
ParameterAttrs == {"h", "H0", "Omega_m", "Omega_lambda", "c"}

\* the redshifts a client queries: z = -1.5 .. 6
ZQuery == -3..12

\* the largest r with r * r <= x, searched by bisection between lo and hi
RECURSIVE ISqrtIn(_, _, _)
ISqrtIn(x, lo, hi) ==
  IF lo = hi THEN lo
  ELSE LET mid == (lo + hi + 1) \div 2
       IN  IF mid * mid <= x THEN ISqrtIn(x, mid, hi) ELSE ISqrtIn(x, lo, mid - 1)
ISqrt(x) == IF x < 0 THEN -1 ELSE ISqrtIn(x, 0, 2000)

\* line 24: np.sqrt(Omega_m * (1 + z)^3 + Omega_lambda), in hundredths, with
\* Omega_m = 0.3147 and Omega_lambda = 0.6853 (lines 12, 13); -1 stands for the
\* nan np.sqrt yields for a negative radicand.
E(zh) ==
  LET cube == (2 + zh) * (2 + zh) * (2 + zh)
      radicand == (3147 * cube) \div 8 + 6853
  IN  ISqrt(radicand)

\* line 33: the integrand c / H0 / E(z') in Mpc, with c = 299792.458 km/s and
\* H0 = 100 * 0.6737 (lines 10, 11, 14)
Integrand(zh) == (((299792 * 100) \div 6737) * 100) \div E(zh)

\* line 33: quad(integrand, 0, z): the definite integral from 0 to z, by the
\* trapezoid rule on the half-unit grid
RECURSIVE Quad(_)
Quad(zh) ==
  IF zh <= 0 THEN 0
  ELSE Quad(zh - 1) + (Integrand(zh - 1) + Integrand(zh)) \div 4

\* line 30: z_vals = np.linspace(0, 5, 1000), here the 11 half-unit points 0..5
z_vals == [i \in 1..11 |-> i - 1]

\* lines 31-34: d_c_vals[i] = integral for each z of z_vals
d_c_vals == [i \in 1..11 |-> Quad(z_vals[i])]

\* line 35: interp1d(z_vals, d_c_vals, kind='cubic', fill_value="extrapolate")
\* evaluated at z: the tabulated value at a knot, and outside the table the
\* continuation of its end segment.
Interp(tbl, zh) ==
  IF zh < 0 THEN tbl[1] + (tbl[2] - tbl[1]) * zh
  ELSE IF zh > 10 THEN tbl[11] + (tbl[11] - tbl[10]) * (zh - 10)
  ELSE tbl[zh + 1]

\* line 44: self.comoving_distance_lookup(z), in Mpc
comoving_distance(tbl, zh) == Interp(tbl, zh)

\* line 53: (1 + z) * self.comoving_distance(z), in half Mpc
luminosity_distance(tbl, zh) == (2 + zh) * comoving_distance(tbl, zh)

\* the integer part of log10(x), x > 0
RECURSIVE ILog10(_)
ILog10(x) == IF x < 10 THEN 0 ELSE 1 + ILog10(x \div 10)

\* np.log10 of numpy: a value for x > 0, -inf for 0 and nan for x < 0 (each
\* with a RuntimeWarning); it raises nothing.
np_log10(x) ==
  IF x > 0 THEN [kind |-> "value", v |-> ILog10(x)]
  ELSE IF x = 0 THEN [kind |-> "-inf", v |-> 0]
  ELSE [kind |-> "nan", v |-> 0]

\* lines 62-63: 5 * np.log10(d_L * 1e6) - 5, d_L * 1e6 being 500000 times the
\* half-Mpc value
distance_modulus(tbl, zh) ==
  LET lg == np_log10(luminosity_distance(tbl, zh) * 5)
  IN  IF lg.kind = "value" THEN [kind |-> "value", v |-> 5 * (lg.v + 5) - 5]
      ELSE lg

AttributeError == [kind |-> "AttributeError", v |-> 0]

\* lines 26-35: the body of _builds_lookups on the instance
BuildLookups ==
  /\ c_lookup' = d_c_vals
  /\ c_attrs' = c_attrs \cup ParameterAttrs \cup {"comoving_distance_lookup"}

\* lines 6-15: Cosmology(): __init__ runs on the new instance, assigns the
\* parameters and calls self.<InitCallee>(); a name that is neither a method of
\* the class nor an attribute raises AttributeError out of __init__.
Cosmology_init ==
  /\ c_pc = "new" /\ s_pc = "idle" /\ g_pc = "idle"
  /\ IF InitCallee \in CosmologyMethods
       THEN /\ BuildLookups
            /\ c_pc' = "constructed"
            /\ c_out' = [op |-> "__init__", z |-> 0, r |-> [kind |-> "value", v |-> 0]]
       ELSE /\ c_attrs' = c_attrs \cup ParameterAttrs
            /\ c_pc' = "init_raised"
            /\ c_out' = [op |-> "__init__", z |-> 0, r |-> AttributeError]
            /\ UNCHANGED c_lookup
  /\ UNCHANGED <<s_vars, g_vars>>

\* lines 26-35: _builds_lookups() called on an instance whose __init__ has run
\* (the instance __init__ raised on keeps the attributes assigned before).
Call_builds_lookups ==
  /\ c_pc # "new"
  /\ ParameterAttrs \subseteq c_attrs
  /\ BuildLookups
  /\ c_out' = [op |-> "_builds_lookups", z |-> 0, r |-> [kind |-> "value", v |-> 0]]
  /\ UNCHANGED <<c_pc, s_vars, g_vars>>

\* Reading self.comoving_distance_lookup raises AttributeError until
\* _builds_lookups has set it.
WithLookup(r) ==
  IF "comoving_distance_lookup" \in c_attrs THEN r ELSE AttributeError

\* lines 17-24
Query_E ==
  /\ c_pc # "new"
  /\ \E zh \in ZQuery :
       c_out' = [op |-> "E", z |-> zh,
                 r |-> IF E(zh) < 0 THEN [kind |-> "nan", v |-> 0]
                       ELSE [kind |-> "value", v |-> E(zh)]]
  /\ UNCHANGED <<c_pc, c_attrs, c_lookup, s_vars, g_vars>>

\* lines 37-44
Query_comoving_distance ==
  /\ c_pc # "new"
  /\ \E zh \in ZQuery :
       c_out' = [op |-> "comoving_distance", z |-> zh,
                 r |-> WithLookup([kind |-> "value",
                                   v |-> comoving_distance(c_lookup, zh)])]
  /\ UNCHANGED <<c_pc, c_attrs, c_lookup, s_vars, g_vars>>

\* lines 46-53
Query_luminosity_distance ==
  /\ c_pc # "new"
  /\ \E zh \in ZQuery :
       c_out' = [op |-> "luminosity_distance", z |-> zh,
                 r |-> WithLookup([kind |-> "value",
                                   v |-> luminosity_distance(c_lookup, zh)])]
  /\ UNCHANGED <<c_pc, c_attrs, c_lookup, s_vars, g_vars>>

\* lines 55-63
Query_distance_modulus ==
  /\ c_pc # "new"
  /\ \E zh \in ZQuery :
       c_out' = [op |-> "distance_modulus", z |-> zh,
                 r |-> WithLookup(distance_modulus(c_lookup, zh))]
  /\ UNCHANGED <<c_pc, c_attrs, c_lookup, s_vars, g_vars>>

\* ---------------------------------------------------- specifications
\* No call is active, no instance constructed; the generator's grid is fixed.
Init ==
  /\ s_pc = "idle" /\ s_self = "none" /\ s_n = 0
  /\ samples = <<>> /\ z_proposal = <<>> /\ prob_proposal = <<>>
  /\ s_result = <<>> /\ s_exc = "none" /\ accepted_log = <<>>
  /\ rng_z \in ZSlices
  /\ g_pc = "idle" /\ g_idx = 0 /\ g_n = 0
  /\ edge_1 = 0 /\ edge_2 = 0 /\ edge_3 = 0
  /\ n_lrg = 0 /\ n_elg = 0 /\ n_qso = 0 /\ n_bgs = 0
  /\ redshifts = <<>> /\ g_result = <<>> /\ invoked = <<>> /\ origin = <<>>
  /\ c_pc = "new" /\ c_attrs = {} /\ c_lookup = <<>>
  /\ c_out = [op |-> "none", z |-> 0, r |-> [kind |-> "none", v |-> 0]]

\* A client of tracers.py: one call of sample_redshifts.
NextTracer ==
  \/ Call_sample_redshifts
  \/ LoopDraw
  \/ LoopExtend
  \/ SampleReturn

SpecTracer == Init /\ [][NextTracer]_vars

\* A client of survey.py: one call of generate_redshifts.
NextSurvey ==
  \/ generate_redshifts
  \/ CallTracer
  \/ SkipTracer
  \/ LoopDraw
  \/ LoopExtend
  \/ SampleReturn
  \/ ExtendRedshifts
  \/ Propagate
  \/ GenerateReturn

SpecSurvey == Init /\ [][NextSurvey]_vars

\* A client of cosmology.py: Cosmology() and the methods of the instance.
NextCosmology ==
  \/ Cosmology_init
  \/ Call_builds_lookups
  \/ Query_E
  \/ Query_comoving_distance
  \/ Query_luminosity_distance
  \/ Query_distance_modulus

SpecCosmology == Init /\ [][NextCosmology]_vars

\* The fairness of a run of sample_redshifts: the interpreter keeps executing
\* the call, and since every batch accepts a proposal with positive
\* probability, batches holding an accepted proposal keep being drawn.
AcceptsSome ==
  \E i \in 1..Len(z_proposal) : prob_proposal[i] < n_of_z(s_self, z_proposal[i])

DrawAccepting == LoopDraw /\ AcceptsSome'

Call_sample_redshifts_live == CallWithin(MaxCountLive)

NextTracerLive ==
  \/ Call_sample_redshifts_live
  \/ LoopDraw
  \/ LoopExtend
  \/ SampleReturn

SpecTracerFair ==
  /\ Init /\ [][NextTracerLive]_vars
  /\ WF_vars(LoopExtend) /\ WF_vars(SampleReturn) /\ SF_vars(DrawAccepting)

\* ------------------------------------------------------------ claims
HasBound(t) == "max_prob_estimate" \in InstanceAttrs(t)

IsPrefix(a, b) == Len(a) <= Len(b) /\ SubSeq(b, 1, Len(a)) = a

PosPart(x) == IF x > 0 THEN x ELSE 0

\* C1: for a tracer that has a max_prob_estimate and every count >= 0, when
\* sample_redshifts(count) has returned, the result has exactly count values,
\* each one a proposal of the sampling range [z_min, z_max]; for count = 0 the
\* result is empty and no batch is ever drawn.
C1_ExactCountInRange ==
  /\ (s_pc = "returned" /\ HasBound(s_self)) =>
       /\ Len(s_result) = s_n
       /\ \A i \in 1..Len(s_result) :
            s_result[i] \in rng_z /\ z_min <= s_result[i] /\ s_result[i] <= z_max
  /\ (s_n = 0 => s_pc # "drawn" /\ s_result = <<>>)

C1_Witness ==
  /\ s_pc = "returned" /\ HasBound(s_self)
  /\ s_n = 2 /\ Len(samples) > 2 /\ Len(s_result) = 2

\* C5: sample_redshifts on a freshly constructed instance of any of the four
\* variants reads a defined bound: the call never ends with the AttributeError
\* of a missing max_prob_estimate.
C5_BoundDefined == s_exc # "AttributeError"

\* C7: in every iteration the batch has exactly 3 * (count - accepted so far)
\* proposals with one height in [0, max_prob_estimate) each; the iteration
\* appends exactly the proposals whose height is strictly below n_of_z of the
\* proposal (a height equal to it is rejected), in proposal order; the
\* accumulator never shrinks.
C7_BatchShape ==
  s_pc = "drawn" =>
    /\ Len(z_proposal) = 3 * (s_n - Len(samples))
    /\ Len(prob_proposal) = Len(z_proposal)
    /\ \A i \in 1..Len(prob_proposal) :
         0 <= prob_proposal[i] /\ prob_proposal[i] < max_prob_estimate(s_self)

C7_AppendsStrictlyBelow ==
  s_pc = "drawn" =>
    /\ samples' = samples \o UnderCurve(s_self, z_proposal, prob_proposal)
    /\ Len(samples') - Len(samples) =
         Cardinality({i \in 1..Len(z_proposal) :
                        prob_proposal[i] < n_of_z(s_self, z_proposal[i])})

C7_NeverShrinks ==
  s_pc \in {"loop", "drawn"} => IsPrefix(samples, samples')

C7_BatchAndAcceptance ==
  /\ []C7_BatchShape
  /\ [][C7_AppendsStrictlyBelow]_vars
  /\ [][C7_NeverShrinks]_vars

C7_Witness ==
  /\ s_pc = "drawn" /\ Len(samples) = 1 /\ s_n = 2
  /\ \E i \in 1..Len(z_proposal) :
       prob_proposal[i] = n_of_z(s_self, z_proposal[i])
  /\ \E i \in 1..Len(z_proposal) :
       prob_proposal[i] < n_of_z(s_self, z_proposal[i])
  /\ \E i \in 1..Len(z_proposal) :
       prob_proposal[i] > n_of_z(s_self, z_proposal[i])

\* C8: the result of sample_redshifts(count) is the first count accepted
\* proposals in the order of their acceptance: the accumulator is the
\* acceptance history, and the excess of the last batch is cut from the end.
C8_FirstAccepted ==
  /\ s_pc \in {"loop", "drawn", "returned"} => samples = accepted_log
  /\ s_pc = "returned" =>
       /\ Len(accepted_log) >= s_n
       /\ s_result = SubSeq(accepted_log, 1, s_n)

C8_Witness ==
  /\ s_pc = "returned" /\ s_n = 2
  /\ Len(accepted_log) > 3
  /\ accepted_log[1] # accepted_log[2]
  /\ accepted_log[Len(accepted_log)] # accepted_log[2]

\* C9: the loop has no iteration cap: it is left only by the return, and only
\* with at least count values accumulated; a call with count > 0 that returns
\* has accepted a proposal (with every proposal rejected it never returns), no
\* exception is raised out of the loop, and under fairness (batches with an
\* accepted proposal keep coming) a call that entered the loop returns.
C9_LeftOnlyByReturn ==
  s_pc \in {"loop", "drawn"} =>
    \/ s_pc' \in {"loop", "drawn"}
    \/ s_pc' = "returned" /\ Len(samples) >= s_n

C9_LoopEndsOnlyWhenFull ==
  /\ ((s_pc = "loop" /\ s_n > 0) ~> (s_pc = "returned"))
  /\ [](s_pc = "returned" =>
          Len(samples) >= s_n /\ (s_n > 0 => accepted_log # <<>>))
  /\ [](s_pc = "raised" => samples = <<>> /\ accepted_log = <<>>)
  /\ [][C9_LeftOnlyByReturn]_vars

C9_Witness ==
  /\ s_pc = "returned" /\ s_self = "BGS" /\ s_n > 0
  /\ Len(accepted_log) = s_n

\* C2: generate_redshifts(n) returns a sequence of at most n values.
C2_LengthAtMostN == g_pc = "returned" => Len(g_result) <= g_n

\* C6: when generate_redshifts has ended, sample_redshifts was invoked on a
\* tracer if and only if its sub-count is > 0, with exactly the sub-count, and
\* the values of an earlier tracer precede those of a later one.
C6_InvokedIffPositive ==
  g_pc \in {"returned", "raised"} =>
    /\ \A k \in 1..4 :
         (\E i \in 1..Len(invoked) : invoked[i][1] = Order[k]) <=> SubCount(k) > 0
    /\ \A i \in 1..Len(invoked) :
         \E k \in 1..4 : invoked[i] = <<Order[k], SubCount(k)>>
    /\ \A i, j \in 1..Len(origin) :
         i < j => \E a, b \in 1..4 : a <= b /\ Order[a] = origin[i] /\ Order[b] = origin[j]

\* C10: in generate_redshifts(n) the three edges lie in [0, n], the four
\* sub-counts sum to exactly n, each lies in [-n, n], and the sum of the
\* positive sub-counts (the values requested) is at least n and at most 2n.
C10_SubCounts ==
  g_pc # "idle" =>
    /\ {edge_1, edge_2, edge_3} \subseteq 0..g_n
    /\ n_lrg + n_elg + n_qso + n_bgs = g_n
    /\ {n_lrg, n_elg, n_qso, n_bgs} \subseteq (0 - g_n)..g_n
    /\ PosPart(n_lrg) + PosPart(n_elg) + PosPart(n_qso) + PosPart(n_bgs) >= g_n
    /\ PosPart(n_lrg) + PosPart(n_elg) + PosPart(n_qso) + PosPart(n_bgs) <= 2 * g_n

C10_Witness ==
  /\ g_pc # "idle" /\ g_n > 0
  /\ n_elg < 0
  /\ PosPart(n_lrg) + PosPart(n_elg) + PosPart(n_qso) + PosPart(n_bgs) = 2 * g_n

\* C3: Cosmology() succeeds and builds the lookup table during construction:
\* once __init__ has run, the instance is constructed and the table exists.
C3_ConstructionBuildsTable ==
  c_pc # "new" =>
    /\ c_pc = "constructed"
    /\ "comoving_distance_lookup" \in c_attrs
    /\ c_lookup = d_c_vals

\* C4: distance_modulus(z) with luminosity_distance(z) <= 0 ends in a domain
\* error; it returns no value, neither a number nor -inf nor nan.
C4_DomainError ==
  (/\ c_out.op = "distance_modulus"
   /\ "comoving_distance_lookup" \in c_attrs
   /\ luminosity_distance(c_lookup, c_out.z) <= 0)
    => c_out.r.kind = "DomainError"

====
